---- MODULE Spec2Model ----
(***************************************************************************)
(* WattWise: the live monitoring engine.                                   *)
(*   - the rolling history buffers of DisplayManager, HomeAssistant and    *)
(*     KasaDevice (append, trim to max_history_size),                      *)
(*   - the trend computation over a history buffer,                        *)
(*   - the watch loop of DisplayManager.display_continuous_usage (live and *)
(*     raw), driven by the callbacks of cli._watch_power_usage,            *)
(*   - cli.view around the loop: the construction and validation of the    *)
(*     source, the history file, the single reading of a call without      *)
(*     --watch, what is written to standard output and the exit status,    *)
(*   - the colour bands of DisplayManager.get_color_for_watts,             *)
(*   - the renderers: the bar chart and the line chart of _update_chart    *)
(*     and the energy table of _update_live_display.                       *)
(*                                                                         *)
(* Time is counted in ticks of a quarter second, the shortest sleep of the *)
(* loop (refresh_per_second = 4).  A reading is a pair <<timestamp, value>>*)
(* as in the source.  An average is kept as the exact fraction <<sum, n>>. *)
(***************************************************************************)
EXTENDS Integers, Sequences, FiniteSets, TLC

VARIABLES
    \* ---- session parameters (arguments of cli.view) ----
    source,            \* "ha" | "kasa": the data source selected by view
    interval,          \* --interval, seconds
    minutes,           \* --minutes, the trend window asked for
    show_current,      \* --current
    raw,               \* --raw
    current_entity_id, \* HomeAssistant.current_entity_id: Some("sensor") or None
    script,            \* how the source answers: free, or a scripted run
    watch,             \* --watch
    mock,              \* --mock
    config,            \* the display thresholds of the configuration
    \* ---- the clock and the control state ----
    now,               \* time.time(), in ticks
    pc,                \* position of the process
    \* ---- locals of display_continuous_usage ----
    current_time,
    last_stat_update,
    last_chart_update,
    watts,
    amperes,
    \* ---- objects ----
    history,           \* DisplayManager.history
    display_current_history, \* DisplayManager.current_history
    power_history,     \* HomeAssistant.power_history
    current_history,   \* HomeAssistant.current_history
    kasa_history,      \* KasaDevice.history
    stats_panel,       \* layout["stats"]
    chart_panel,       \* layout["chart"]
    history_file,      \* ~/.local/share/wattwise/history.json
    stdout,            \* what was written to standard output, line by line
    exit_code,         \* the exit status of the process, None while it runs
    \* ---- the trend API called on its own (SpecTrend) ----
    trend_result,
    trend_args,
    \* ---- get_color_for_watts called on its own (SpecColor) ----
    color_calls,       \* the last two calls, each [watts, color]
    \* ---- observers (history variables, no counterpart in the code) ----
    appended,          \* per buffer, every reading appended so far
    polls,             \* number of source fetches attempted
    last_poll,         \* the last fetch: [time, ok], or None
    interrupt_pc       \* where the interrupt arrived, or NoPc

vars == <<source, interval, minutes, show_current, raw, current_entity_id, script,
          watch, mock, config,
          now, pc, current_time, last_stat_update, last_chart_update, watts, amperes,
          history, display_current_history,
          power_history, current_history, kasa_history,
          stats_panel, chart_panel, history_file, stdout, exit_code,
          trend_result, trend_args, color_calls,
          appended, polls, last_poll, interrupt_pc>>

\* An optional value (Python's None or a value) is a sequence of at most one element.
None == <<>>

Some(x) == <<x>>

Val(o) == o[1]

NoPc == "none"

(***************************************************************************)
(* Program constants.                                                      *)
(***************************************************************************)
TicksPerSecond == 4

max_history_size == 100

ha_max_history_size == 100

kasa_max_history_size == 100

max_Watts == 1800

warning_threshold == 300

critical_threshold == 1200

TerminalWidth == 80

TrendMinutesInLoop == 5

display_count == 10

\* history_count = min(len(self.history), 30)
bar_window == 30

\* points = min(len(self.history), 30)
line_chart_points == 30

\* height = 7
line_chart_height == 7

(***************************************************************************)
(* Bounds of the model.                                                    *)
(***************************************************************************)
T0 == 2000

MaxPolls == 3

MaxScriptPolls == 104

MaxTrendLen == 3

MaxTrendClock == 1

Watts == {100, 300}

Amps == {2}

Intervals == {1, 2}

MinutesSet == {1, 5}

Seconds(s) == s * TicksPerSecond

(***************************************************************************)
(* Sequence helpers (Python list operations).                              *)
(***************************************************************************)
\* s[-n:]
LastN(s, n) == IF Len(s) > n THEN SubSeq(s, Len(s) - n + 1, Len(s)) ELSE s

Max2(a, b) == IF a >= b THEN a ELSE b

Min2(a, b) == IF a <= b THEN a ELSE b

\* sum(s), min(s), max(s): folded over the two halves of the sequence
RECURSIVE SeqSum(_)
SeqSum(s) ==
    IF s = <<>> THEN 0
    ELSE IF Len(s) = 1 THEN s[1]
    ELSE LET mid == Len(s) \div 2
         IN  SeqSum(SubSeq(s, 1, mid)) + SeqSum(SubSeq(s, mid + 1, Len(s)))

RECURSIVE SeqMin(_)
SeqMin(s) ==
    IF Len(s) = 1 THEN s[1]
    ELSE LET mid == Len(s) \div 2
         IN  Min2(SeqMin(SubSeq(s, 1, mid)), SeqMin(SubSeq(s, mid + 1, Len(s))))

RECURSIVE SeqMax(_)
SeqMax(s) ==
    IF Len(s) = 1 THEN s[1]
    ELSE LET mid == Len(s) \div 2
         IN  Max2(SeqMax(SubSeq(s, 1, mid)), SeqMax(SubSeq(s, mid + 1, Len(s))))

(***************************************************************************)
(* History buffers.                                                        *)
(***************************************************************************)
\* a trim that keeps the oldest entries instead of the newest (history[:max])
AppendTrimKeepsOldest(buf, reading, max) ==
    LET grown == Append(buf, reading)
    IN  IF Len(grown) > max THEN SubSeq(grown, 1, max) ELSE grown

\* self.history.append((timestamp, watts)); trim to the last max entries
AppendTrim(buf, reading, max) ==
    LET grown == Append(buf, reading)
    IN  IF Len(grown) > max THEN LastN(grown, max) ELSE grown

\* an add_to_history that drops the reading
add_to_history_Drops(buf, t, w) == buf

\* DisplayManager.add_to_history
add_to_history(buf, t, w) == AppendTrim(buf, <<t, w>>, max_history_size)

\* the append of HomeAssistant.get_power_usage / get_current_amperage
HA_append(buf, t, v) == AppendTrim(buf, <<t, v>>, ha_max_history_size)

\* the append of KasaDevice.get_power_usage_sync
Kasa_append(buf, t, w) == AppendTrim(buf, <<t, w>>, kasa_max_history_size)

\* DisplayManager.display_current_usage: the watts go to the history, and so does
\* the current when there is one
display_current_usage(w, a, t) ==
    /\ history' = add_to_history(history, t, w)
    /\ display_current_history' =
          IF a # None
          THEN AppendTrim(display_current_history, <<t, Val(a)>>, max_history_size)
          ELSE display_current_history

(***************************************************************************)
(* Trend computation.                                                      *)
(***************************************************************************)
\* [(t, v) for t, v in history if t >= cutoff]
relevant_history(h, cutoff) == SelectSeq(h, LAMBDA e : e[1] >= cutoff)

ValuesOf(h) == [i \in 1..Len(h) |-> h[i][2]]

\* a trend whose "current" is the oldest value of the window
TrendRecordCurrentIsFirst(values, m) ==
    [current |-> values[1],
     min |-> SeqMin(values),
     max |-> SeqMax(values),
     avg |-> <<SeqSum(values), Len(values)>>,
     samples |-> Len(values),
     period_minutes |-> m]

TrendRecord(values, m) ==
    [current |-> values[Len(values)],
     min |-> SeqMin(values),
     max |-> SeqMax(values),
     avg |-> <<SeqSum(values), Len(values)>>,
     samples |-> Len(values),
     period_minutes |-> m]

\* a trend that is content with a single sample in the window
HA_get_trend_data_OneSample(h, m, t) ==
    IF h = <<>> THEN None
    ELSE LET cutoff == t - Seconds(m * 60)
             rel == relevant_history(h, cutoff)
         IN  IF Len(rel) < 1 THEN None ELSE Some(TrendRecord(ValuesOf(rel), m))

\* HomeAssistant._get_trend_data(history, minutes), called at time t
HA_get_trend_data(h, m, t) ==
    IF h = <<>> THEN None
    ELSE LET cutoff == t - Seconds(m * 60)
             rel == relevant_history(h, cutoff)
         IN  IF Len(rel) < 2 THEN None ELSE Some(TrendRecord(ValuesOf(rel), m))

\* KasaDevice.get_power_trend(minutes), called at time t
Kasa_get_power_trend(h, m, t) ==
    IF h = <<>> THEN None
    ELSE LET cutoff == t - Seconds(m * 60)
             rel == relevant_history(h, cutoff)
         IN  IF Len(rel) < 2 THEN None ELSE Some(TrendRecord(ValuesOf(rel), m))

(***************************************************************************)
(* Rendering.                                                              *)
(***************************************************************************)
\* the thresholds of DisplayManager.__init__ when the configuration names none
DefaultThresholds == [warning |-> warning_threshold, critical |-> critical_threshold]

\* a colour choice that leaves a value equal to a threshold in the lower band
get_color_for_watts_Exclusive(w) ==
    IF w > config.critical THEN "red"
    ELSE IF w > config.warning THEN "yellow"
    ELSE "green"

\* DisplayManager.get_color_for_watts, with the default colours
get_color_for_watts(w) ==
    IF w >= config.critical THEN "red"
    ELSE IF w >= config.warning THEN "yellow"
    ELSE "green"

\* chart_width = max(20, int(terminal_width * 0.7) - 15); for the terminal
\* widths used here the double-precision product truncates to the same integer
\* as the exact one
chart_width(tw) == Max2(20, ((tw * 7) \div 10) - 15)

\* int(a / b) of Python for integers a and b > 0: the quotient, truncated towards 0
TruncDiv(a, b) == IF a >= 0 THEN a \div b ELSE -((-a) \div b)

\* list.sort() of a list of integers
RECURSIVE SortAsc(_)
SortAsc(s) ==
    IF Len(s) <= 1 THEN s
    ELSE LET x == Head(s)
             rest == SortAsc(Tail(s))
         IN  SelectSeq(rest, LAMBDA e : e < x) \o <<x>>
                \o SelectSeq(rest, LAMBDA e : e >= x)

\* a sampling that takes the newest display_count readings, whatever the window
bar_indices_Newest(history_count) ==
    SortAsc([i \in 1..display_count |-> history_count - 1 - (i - 1)])

\* indices = [history_count - 1 - i * (history_count // display_count)
\*            for i in range(display_count)]; indices.sort()
bar_indices(history_count) ==
    SortAsc([i \in 1..display_count |->
                history_count - 1 - (i - 1) * (history_count \div display_count)])

\* bar_width = max(1, int((watts / max_watts) * chart_width))
bar_width(w, cw) == Max2(1, TruncDiv(w * cw, max_Watts))

\* current_bar_width = max(1, int((amperes / max_amperes) * chart_width))
\*                     if max_amperes > 0 else 0
current_bar_width(a, max_amperes, cw) ==
    IF max_amperes > 0 THEN Max2(1, TruncDiv(a * cw, max_amperes)) ELSE 0

\* the bar rows of DisplayManager._update_chart for the power history h and the
\* current history ch: one row per sampled index, none when the window holds
\* fewer than display_count readings
BarRows(h, ch, showc, cw) ==
    LET history_count == Min2(Len(h), bar_window)
        recent_history == LastN(h, history_count)
        recent_current_history == IF showc /\ ch # <<>> THEN LastN(ch, history_count)
                                  ELSE <<>>
        max_amperes == IF recent_current_history # <<>>
                       THEN SeqMax(ValuesOf(recent_current_history))
                       ELSE 0
        shown == SelectSeq(bar_indices(history_count),
                           LAMBDA i : i < Len(recent_history))
    IN  IF history_count >= display_count
        THEN [k \in 1..Len(shown) |->
                LET i == shown[k]
                    w == recent_history[i + 1][2]
                IN  [index |-> i,
                     time |-> recent_history[i + 1][1],
                     watts |-> w,
                     bar_width |-> bar_width(w, cw),
                     color |-> get_color_for_watts(w),
                     current_bar |->
                        IF showc /\ i < Len(recent_current_history)
                        THEN Some(current_bar_width(recent_current_history[i + 1][2],
                                                    max_amperes, cw))
                        ELSE None]]
        ELSE <<>>

\* the character of the finished grid of _create_line_chart at row y, column x:
\* the points are plotted first, then the bottom row and the left column are
\* overwritten by the axes
GridCell(positions, y, x) ==
    IF y = line_chart_height THEN (IF x = 0 THEN "corner" ELSE "hline")
    ELSE IF x = 0 THEN "vline"
    ELSE IF \E k \in 1..Len(positions) : positions[k] = <<y, x>> THEN "point"
    ELSE "blank"

\* a column mapping that spreads the samples over width instead of width - 1
line_x_pos_FullWidth(i, points, width) == TruncDiv(i * width, points - 1)

\* x_pos = int(i / (points - 1) * (width - 1)); for the widths used here the
\* double-precision product truncates to the same integer as the exact one
line_x_pos(i, points, width) == TruncDiv(i * (width - 1), points - 1)

\* the element of a singleton.  In {e : x \in {v}} the name x holds the value
\* of v, computed once, however often e uses it.
TheOne(S) == CHOOSE x \in S : TRUE

\* value_padding = max(1, (actual_max - actual_min) * 0.1), in tenths of a watt
value_padding10(actual_min, actual_max) == Max2(10, actual_max - actual_min)

\* min_value = max(0, actual_min - value_padding), in tenths of a watt
min_value10(actual_min, actual_max) ==
    Max2(0, 10 * actual_min - value_padding10(actual_min, actual_max))

\* max_value = actual_max + value_padding, in tenths of a watt
max_value10(actual_min, actual_max) ==
    10 * actual_max + value_padding10(actual_min, actual_max)

\* value_range = max_value - min_value; if value_range < 1: value_range = 1
value_range10(actual_min, actual_max) ==
    LET range == max_value10(actual_min, actual_max)
                    - min_value10(actual_min, actual_max)
    IN  IF range < 10 THEN 10 ELSE range

\* y_pos = chart_height - 1 - int((value - min_value) / value_range
\*                                * (chart_height - 1)), kept within the rows
line_y_pos(v, min10, range10) ==
    LET chart_height == line_chart_height
        y == chart_height - 1 - TruncDiv((10 * v - min10) * (chart_height - 1), range10)
    IN  Max2(0, Min2(chart_height - 1, y))

\* the grid of _create_line_chart for the values of the plotted readings: the
\* value range (in tenths of a watt), each sample's (row, column) and the cells
\* that hold a point in the finished grid
LineGrid(values, width) ==
    LET points == Len(values)
        Plot(min10, range10) ==
            TheOne({[kind |-> "grid", width |-> width,
                     value_range10 |-> range10,
                     positions |-> positions,
                     points |-> {c \in {positions[k] : k \in 1..points} :
                                    GridCell(positions, c[1], c[2]) = "point"}] :
                    positions \in
                       {[k \in 1..points |->
                            <<line_y_pos(values[k], min10, range10),
                              line_x_pos(k - 1, points, width)>>]}})
        Scale(actual_min, actual_max) ==
            TheOne({Plot(min10, range10) :
                      min10 \in {min_value10(actual_min, actual_max)},
                      range10 \in {value_range10(actual_min, actual_max)}})
    IN  TheOne({Scale(actual_min, actual_max) :
                  actual_min \in {SeqMin(values)}, actual_max \in {SeqMax(values)}})

\* DisplayManager._create_line_chart(width): the placeholder, or the grid of the
\* most recent readings
LineChart(h, width) ==
    IF Len(h) < 2
    THEN [kind |-> "Not enough data for line chart", width |-> width,
          value_range10 |-> 0, positions |-> <<>>, points |-> {}]
    ELSE TheOne({LineGrid(values, width) :
                   values \in {ValuesOf(LastN(h, Min2(Len(h), line_chart_points)))}})

\* the panel DisplayManager._update_chart puts into layout["chart"]
ChartPanel(h, ch, showc, tw) ==
    [bars |-> BarRows(h, ch, showc, chart_width(tw)),
     current_column |-> showc /\ ch # <<>>,
     line |-> LineChart(h, chart_width(tw))]

\* an _update_chart that renders an empty history too
update_chart_NoGuard(panel, h, ch, showc, tw) == Some(ChartPanel(h, ch, showc, tw))

\* DisplayManager._update_chart: if not self.history: return
update_chart(panel, h, ch, showc, tw) ==
    IF h = <<>> THEN panel ELSE Some(ChartPanel(h, ch, showc, tw))

\* a float that holds a quotient of integers is kept as the fraction
\* <<numerator, denominator>> in lowest terms, so that equal values are equal
RECURSIVE GCD(_, _)
GCD(a, b) == IF b = 0 THEN a ELSE TheOne({GCD(b, r) : r \in {a % b}})

Frac(n, d) == TheOne({<<n \div g, d \div g>> : g \in {GCD(n, d)}})

\* hours_elapsed = max(0.001, (end_time - start_time) / 3600)
hours_elapsed(h) ==
    LET span == h[Len(h)][1] - h[1][1]
    IN  IF span * 1000 < 3600 * TicksPerSecond THEN Frac(1, 1000)
        ELSE Frac(span, 3600 * TicksPerSecond)

\* an energy table that never takes a time span for shorter than an hour
under_one_hour_Never(hours) == FALSE

\* if hours_elapsed < 1
under_one_hour(hours) == hours[1] < hours[2]

\* the rows of the energy table for the average avg_watts of the trend; a figure
\* is the fraction of kWh handed to the format
energy_table_rows(avg_watts, h) ==
    LET est == [label |-> "Used (est.)",
                kwh |-> Frac(avg_watts[1], avg_watts[2] * 1000)]
        hourly == [label |-> "Used (hourly)",
                   kwh |-> Frac(avg_watts[1], avg_watts[2] * 1000)]
        actual(hours) == [label |-> "Used (actual)",
                          kwh |-> Frac(avg_watts[1] * hours[1],
                                       avg_watts[2] * hours[2] * 1000)]
    IN  IF Len(h) >= 2
        THEN TheOne({IF under_one_hour(hours) THEN <<est>>
                     ELSE <<actual(hours), hourly>> :
                        hours \in {hours_elapsed(h)}})
        ELSE <<est>>

\* the energy table of _update_live_display: no row without a trend
energy_rows(trend, h) ==
    IF trend = None THEN <<>>
    ELSE TheOne({energy_table_rows(avg_watts, h) : avg_watts \in {Val(trend).avg}})

\* the panel DisplayManager._update_live_display puts into layout["stats"], with
\* the display history h as it is at the call
StatsPanel(w, trend, t, a, ctrend, showc, h) ==
    [watts |-> w,
     color |-> get_color_for_watts(w),
     power_trend |-> trend,
     amperes |-> IF showc THEN a ELSE None,
     current_trend |-> IF showc /\ a # None THEN ctrend ELSE None,
     energy |-> energy_rows(trend, h),
     timestamp |-> t]

\* the panels of DisplayManager._create_live_display: "Loading power data..." and
\* "Collecting data for chart..."
LoadingPanel == None

CollectingPanel == None


(***************************************************************************)
(* Variable groups.                                                        *)
(***************************************************************************)
params == <<source, interval, minutes, show_current, raw, current_entity_id, script,
            watch, mock, config>>

loop_locals == <<current_time, last_stat_update, last_chart_update, watts, amperes>>

\* the histories the DisplayManager keeps
display_buffers == <<history, display_current_history>>

source_buffers == <<power_history, current_history, kasa_history>>

panels == <<stats_panel, chart_panel>>

trend_api == <<trend_result, trend_args>>

(***************************************************************************)
(* The source's answers.  In a free run every answer is possible at every  *)
(* fetch; in a scripted run (long runs that fill the buffers) the answer   *)
(* to the n-th fetch is fixed by the script chosen at the start.  An       *)
(* answer is [kind, value]: kind "ok" with the value read, or the way the  *)
(* fetch fails.                                                            *)
(***************************************************************************)
Ok(v) == [kind |-> "ok", value |-> v]

Failure(k) == [kind |-> k, value |-> 0]

FreeRun == [kind |-> "free", fail_every |-> 0, zero_every |-> 0, seed |-> 0]

\* the last script is a load that is switched off now and then: the sensor
\* then reports 0 W
Scripts == {[kind |-> "script", fail_every |-> 0, zero_every |-> 0, seed |-> 0],
            [kind |-> "script", fail_every |-> 0, zero_every |-> 0, seed |-> 3],
            [kind |-> "script", fail_every |-> 40, zero_every |-> 0, seed |-> 1],
            [kind |-> "script", fail_every |-> 0, zero_every |-> 4, seed |-> 5]}

ScriptedPower(n) ==
    IF script.fail_every > 0 /\ n % script.fail_every = 0 THEN Failure("fail")
    ELSE IF script.zero_every > 0 /\ n % script.zero_every = 0 THEN Ok(0)
    ELSE Ok(100 + 50 * ((n + script.seed) % 7))

ScriptedCurrent(n) ==
    IF script.fail_every > 0 /\ n % script.fail_every = 1 THEN Failure("fail")
    ELSE Ok(1 + ((n + script.seed) % 3))

PollLimit == IF script.kind = "free" THEN MaxPolls ELSE MaxScriptPolls

\* what one fetch of the power reading can come to
PowerOutcomes ==
    IF script.kind # "free" THEN {ScriptedPower(polls + 1)}
    ELSE IF mock THEN {Ok(w) : w \in Watts}
    ELSE IF source = "ha" THEN {Ok(w) : w \in Watts} \cup {Failure("fail")}
    ELSE {Ok(w) : w \in Watts}
            \cup {Failure("raise"), Failure("no_emeter"), Failure("emeter_error")}

\* what one fetch of the current reading can come to
CurrentOutcomes ==
    IF source = "ha" /\ show_current /\ current_entity_id # None
    THEN IF script.kind # "free" THEN {ScriptedCurrent(polls + 1)}
         ELSE IF mock THEN {Ok(a) : a \in Amps}
         ELSE {Ok(a) : a \in Amps} \cup {Failure("fail")}
    ELSE {Failure("no_entity")}

\* the time a fetch takes, in ticks: a fetch returns within the tick it began in
FetchTicks == {0}

(***************************************************************************)
(* The sources.  Each fetch returns a value or None and appends what it    *)
(* returns to the source's own history.                                    *)
(***************************************************************************)
\* HomeAssistant.get_power_usage behind cli get_power: the value, or None when
\* the request or the parse fails (HomeAssistantError, caught by the callback)
HA_get_power_usage(o, t) ==
    IF o.kind # "ok"
    THEN [ret |-> None, buf |-> power_history, added |-> <<>>]
    ELSE [ret |-> Some(o.value), buf |-> HA_append(power_history, t, o.value),
          added |-> <<<<t, o.value>>>>]

\* HomeAssistant.get_current_amperage behind cli get_current: None without a
\* current entity, None when the request or the parse fails
HA_get_current_amperage(c, t) ==
    IF current_entity_id = None \/ c.kind # "ok"
    THEN [ret |-> None, buf |-> current_history, added |-> <<>>]
    ELSE [ret |-> Some(c.value), buf |-> HA_append(current_history, t, c.value),
          added |-> <<<<t, c.value>>>>]

\* KasaDevice.get_power_usage_sync: None when get_device_info_sync raises or the
\* device has no energy meter; a timeout or error of the energy meter read is
\* turned into 0 W by get_device_info_sync and recorded like a reading
Kasa_get_power_usage_sync(o, t) ==
    IF o.kind \in {"raise", "no_emeter", "fail"}
    THEN [ret |-> None, buf |-> kasa_history, added |-> <<>>]
    ELSE LET w == IF o.kind = "emeter_error" THEN 0 ELSE o.value
         IN  [ret |-> Some(w), buf |-> Kasa_append(kasa_history, t, w),
              added |-> <<<<t, w>>>>]

\* cli get_power / get_current on the selected source: the new values of
\* watts, amperes, the source's buffers and the observers
Fetch(o, c, t) ==
    LET p == IF source = "ha" THEN HA_get_power_usage(o, t)
             ELSE Kasa_get_power_usage_sync(o, t)
        a == IF source = "ha" /\ show_current THEN HA_get_current_amperage(c, t)
             ELSE [ret |-> None, buf |-> current_history, added |-> <<>>]
    IN  /\ watts' = p.ret
        /\ amperes' = a.ret
        /\ power_history' = IF source = "ha" THEN p.buf ELSE power_history
        /\ kasa_history' = IF source = "kasa" THEN p.buf ELSE kasa_history
        /\ current_history' = a.buf
        /\ appended' = [appended EXCEPT
                          ![IF source = "ha" THEN "power" ELSE "kasa"] = @ \o p.added,
                          !["current"] = @ \o a.added]
        /\ polls' = polls + 1

\* the source's power history, whichever source is selected
SourcePowerHistory == IF source = "ha" THEN power_history ELSE kasa_history

\* cli get_power_trend(minutes) at time t
get_power_trend(m, t) ==
    IF source = "ha" THEN HA_get_trend_data(power_history, m, t)
    ELSE Kasa_get_power_trend(kasa_history, m, t)

\* cli get_current_trend(minutes) at time t
get_current_trend(m, t) ==
    IF source = "ha" /\ show_current THEN HA_get_trend_data(current_history, m, t)
    ELSE None


(***************************************************************************)
(* Standard output.  A line is [kind, negative, digits]: a number line     *)
(* carries the sign and the decimal digits written, any other line (a      *)
(* banner, a notice, a panel of the rich console) only its kind.           *)
(***************************************************************************)
\* the decimal digits of a natural number, most significant first
RECURSIVE Digits(_)
Digits(n) == IF n < 10 THEN <<n>> ELSE Append(Digits(n \div 10), n % 10)

\* a format that keeps one decimal: the digits of the tenths
Format1(w) ==
    [kind |-> "number", negative |-> w < 0,
     digits |-> Digits((IF w < 0 THEN -w ELSE w) * 10)]

\* f"{watts:.0f}\n" of a reading of whole watts
Format0(w) ==
    [kind |-> "number", negative |-> w < 0,
     digits |-> Digits(IF w < 0 THEN -w ELSE w)]

\* console.print(...) of the rich console, which writes to sys.stdout
ConsoleLine(kind) == [kind |-> kind, negative |-> FALSE, digits |-> <<>>]

\* the exit status when the one fetch of a single-shot call gives no value: raw
\* leaves with sys.exit(1), otherwise show_error is called and view returns
single_shot_failure_SilentSkip(r) == Some(0)

single_shot_failure(r) == IF r THEN Some(1) ELSE Some(0)

(***************************************************************************)
(* The history file.                                                       *)
(***************************************************************************)
\* what history.json can hold when a session starts: nothing, or the buffers an
\* earlier session saved some time before T0
HistoryFiles ==
    {None,
     Some([power |-> << <<T0 - 300, 100>>, <<T0 - 100, 300>> >>, current |-> <<>>]),
     Some([power |-> << <<T0 - 300, 300>>, <<T0 - 100, 100>> >>,
           current |-> << <<T0 - 100, 2>> >>])}

(***************************************************************************)
(* Initial states.                                                         *)
(***************************************************************************)
\* what every run starts from, the session parameters and the file apart
Fresh ==
    /\ now = T0
    /\ pc = "start"
    /\ current_time = 0
    /\ last_stat_update = 0
    /\ last_chart_update = 0
    /\ watts = None
    /\ amperes = None
    /\ history = <<>>
    /\ display_current_history = <<>>
    /\ power_history = <<>>
    /\ current_history = <<>>
    /\ kasa_history = <<>>
    /\ stats_panel = LoadingPanel
    /\ chart_panel = CollectingPanel
    /\ stdout = <<>>
    /\ exit_code = None
    /\ trend_result = None
    /\ trend_args = None
    /\ color_calls = <<>>
    /\ appended = [display |-> <<>>, power |-> <<>>, current |-> <<>>, kasa |-> <<>>,
                   chart |-> <<>>]
    /\ polls = 0
    /\ last_poll = None
    /\ interrupt_pc = NoPc

\* view with any source, interval, window, --current and --raw
Init ==
    /\ source \in {"ha", "kasa"}
    /\ interval \in Intervals
    /\ minutes \in MinutesSet
    /\ show_current \in BOOLEAN
    /\ raw \in BOOLEAN
    /\ current_entity_id \in
         (IF source = "ha" /\ show_current THEN {None, Some("sensor")} ELSE {None})
    /\ script = FreeRun
    /\ watch \in BOOLEAN
    /\ mock \in (IF source = "ha" THEN BOOLEAN ELSE {FALSE})
    /\ config = DefaultThresholds
    /\ history_file \in HistoryFiles
    /\ Fresh

(***************************************************************************)
(* cli.view before the loop.                                               *)
(***************************************************************************)
\* _load_history_from_daemon that takes the file's series whatever the buffer holds
seed_from_daemon_Overwrites(buf, series) == IF series # <<>> THEN series ELSE buf

\* _load_history_from_daemon: if power_history and not self.power_history
seed_from_daemon(buf, series) == IF series # <<>> /\ buf = <<>> THEN series ELSE buf

\* a load step of view that takes the file's series whatever the buffer holds
seed_from_file_Overwrites(buf, series) == series

\* view, "Load history": if not data_source.power_history
seed_from_file(buf, series) == IF buf = <<>> THEN series ELSE buf

\* HomeAssistant._load_history_from_daemon / KasaDevice._load_history_from_daemon
\* on the selected source
load_history_from_daemon ==
    IF history_file = None
    THEN UNCHANGED source_buffers
    ELSE LET f == Val(history_file)
         IN  IF source = "ha"
             THEN /\ power_history' = seed_from_daemon(power_history, f.power)
                  /\ current_history' = seed_from_daemon(current_history, f.current)
                  /\ UNCHANGED kasa_history
             ELSE /\ kasa_history' = seed_from_daemon(kasa_history, f.power)
                  /\ UNCHANGED <<power_history, current_history>>

\* the body of view's "Load history" on the selected source
load_history_from_file ==
    IF history_file = None
    THEN UNCHANGED source_buffers
    ELSE LET f == Val(history_file)
         IN  /\ power_history' = IF source = "ha"
                                 THEN seed_from_file(power_history, f.power)
                                 ELSE power_history
             /\ kasa_history' = IF source = "kasa"
                                THEN seed_from_file(kasa_history, f.power)
                                ELSE kasa_history
             /\ current_history' = IF show_current /\ source = "ha"
                                   THEN seed_from_file(current_history, f.current)
                                   ELSE current_history

\* HomeAssistant.__init__ / KasaDevice.__init__ with _load_history_from_daemon
ConstructSource ==
    /\ pc = "start"
    /\ pc' = IF source = "ha" THEN "validate" ELSE "constructed"
    /\ load_history_from_daemon
    /\ UNCHANGED <<params, now, loop_locals, display_buffers, panels, history_file, stdout,
                   exit_code, trend_api, color_calls, appended, polls, last_poll,
                   interrupt_pc>>

\* KasaDevice.__init__ raises (python-kasa is not installed): view shows the error
\* panel and two lines and raises typer.Exit(1), a RuntimeError, which view's own
\* `except Exception` reports once more before it exits with 1
ConstructKasaFails ==
    /\ pc = "start"
    /\ source = "kasa"
    /\ pc' = "exited"
    /\ stdout' = stdout \o <<ConsoleLine("error_panel"), ConsoleLine("notice"),
                            ConsoleLine("notice"), ConsoleLine("error_line")>>
    /\ exit_code' = Some(1)
    /\ UNCHANGED <<params, now, loop_locals, display_buffers, source_buffers, panels,
                   history_file, trend_api, color_calls, appended, polls, last_poll,
                   interrupt_pc>>

\* ha_client.validate_connection() and what view does with its answer: in mock
\* mode it succeeds and the mock banner is printed; a failure is shown and ends
\* the process with 1
ValidateConnection ==
    /\ pc = "validate"
    /\ \E success \in (IF mock THEN {TRUE} ELSE BOOLEAN) :
          IF success
          THEN /\ pc' = "constructed"
               /\ stdout' = IF mock THEN Append(stdout, ConsoleLine("mock_banner"))
                            ELSE stdout
               /\ UNCHANGED exit_code
          ELSE /\ pc' = "exited"
               /\ stdout' = stdout \o <<ConsoleLine("error_panel"),
                                       ConsoleLine("error_line")>>
               /\ exit_code' = Some(1)
    /\ UNCHANGED <<params, now, loop_locals, display_buffers, source_buffers, panels,
                   history_file, trend_api, color_calls, appended, polls, last_poll,
                   interrupt_pc>>

\* view, "Load history": only when watch is set, the file exists and mock is not
LoadHistory ==
    /\ pc = "constructed"
    /\ pc' = IF ~watch THEN "single" ELSE IF raw THEN "raw_poll" ELSE "setup"
    /\ IF watch /\ ~mock
       THEN load_history_from_file
       ELSE UNCHANGED source_buffers
    /\ UNCHANGED <<params, now, loop_locals, display_buffers, panels, history_file, stdout,
                   exit_code, trend_api, color_calls, appended, polls, last_poll,
                   interrupt_pc>>

(***************************************************************************)
(* cli._fetch_and_display_usage: the single reading of a call without      *)
(* --watch.                                                                *)
(***************************************************************************)
\* An exception of the Home Assistant client is caught by the function's own
\* `except Exception`; sys.exit(1) raises SystemExit, which no handler of view
\* catches.
FetchAndDisplay ==
    /\ pc = "single"
    /\ \E o \in PowerOutcomes, c \in CurrentOutcomes :
          LET p == IF source = "ha" THEN HA_get_power_usage(o, now)
                   ELSE Kasa_get_power_usage_sync(o, now)
              asks_current == source = "ha" /\ show_current /\ p.ret # None
              a == IF asks_current THEN HA_get_current_amperage(c, now)
                   ELSE [ret |-> None, buf |-> current_history, added |-> <<>>]
              \* get_current_amperage raises (there is an entity and its fetch fails)
              current_raises == asks_current /\ current_entity_id # None /\ c.kind # "ok"
              failed == p.ret = None \/ current_raises
          IN  /\ watts' = p.ret
              /\ amperes' = a.ret
              /\ power_history' = IF source = "ha" THEN p.buf ELSE power_history
              /\ kasa_history' = IF source = "kasa" THEN p.buf ELSE kasa_history
              /\ current_history' = a.buf
              /\ appended' = [appended EXCEPT
                                ![IF source = "ha" THEN "power" ELSE "kasa"] = @ \o p.added,
                                !["current"] = @ \o a.added,
                                !["display"] = IF ~failed /\ ~raw
                                               THEN Append(@, <<now, Val(p.ret)>>)
                                               ELSE @]
              /\ IF ~failed /\ ~raw
                 THEN display_current_usage(Val(p.ret), a.ret, now)
                 ELSE UNCHANGED display_buffers
              /\ last_poll' = Some([time |-> now, ok |-> ~failed, kind |-> o.kind])
              /\ stdout' = IF ~failed
                           THEN Append(stdout, IF raw THEN Format0(Val(p.ret))
                                               ELSE ConsoleLine("usage_panel"))
                           ELSE IF raw THEN stdout
                           ELSE Append(stdout, ConsoleLine("error_panel"))
              /\ exit_code' = IF failed THEN single_shot_failure(raw) ELSE Some(0)
    /\ polls' = polls + 1
    /\ pc' = "exited"
    /\ UNCHANGED <<params, now, current_time, last_stat_update, last_chart_update,
                   panels, history_file, trend_api, color_calls, interrupt_pc>>

(***************************************************************************)
(* DisplayManager.display_continuous_usage, live.                          *)
(***************************************************************************)
\* refresh_per_second
refresh_per_second(i) == IF i <= 1 THEN 4 ELSE IF i <= 5 THEN 2 ELSE 1

\* sleep_time = 1.0 / refresh_per_second, in ticks
sleep_time(i) == TicksPerSecond \div refresh_per_second(i)

\* the layout is created and the Live display entered
EnterLoop ==
    /\ pc = "setup"
    /\ pc' = "top"
    /\ last_stat_update' = 0
    /\ last_chart_update' = 0
    /\ stats_panel' = LoadingPanel
    /\ chart_panel' = CollectingPanel
    /\ UNCHANGED <<params, now, current_time, watts, amperes, display_buffers,
                   source_buffers, history_file, stdout, exit_code, trend_api,
                   color_calls, appended, polls, last_poll, interrupt_pc>>

\* a poll condition that holds on every repaint iteration
poll_due_EveryIteration(t, last, i) == TRUE

\* if current_time - last_stat_update >= interval
poll_due(t, last, i) == t - last >= Seconds(i)

\* a chart condition on the poll cadence
chart_due_EveryInterval(t, last, i) == t - last >= Seconds(i)

\* if current_time - last_chart_update >= max(interval * 2, 5)
chart_due(t, last, i) == t - last >= Seconds(Max2(i * 2, 5))

\* current_time = time.time(); is a poll due?
LoopTop ==
    /\ pc = "top"
    /\ current_time' = now
    /\ IF poll_due(now, last_stat_update, interval)
       THEN polls < PollLimit /\ pc' = "poll"
       ELSE pc' = "chart"
    /\ UNCHANGED <<params, now, last_stat_update, last_chart_update, watts, amperes,
                   display_buffers, source_buffers, panels, history_file, stdout, exit_code,
                   trend_api, color_calls, appended, polls, last_poll, interrupt_pc>>

\* a loop that a failed fetch ends (the failure leaves the loop)
AfterPollAborts(w) == IF w # None THEN "stats" ELSE "crashed"

\* if watts is not None: the stats are updated; otherwise the iteration goes on
AfterPoll(w) == IF w # None THEN "stats" ELSE "chart"

\* a fetch that puts the stats panel back to its loading text when it fails
PollBlanksStatsOnFailure ==
    /\ stats_panel' = IF watts' = None THEN LoadingPanel ELSE stats_panel
    /\ UNCHANGED <<last_stat_update, last_chart_update, display_buffers, chart_panel>>

\* the two callbacks run before `if watts is not None:` and touch nothing of the
\* display: not its history, not its panels, not the times of the last updates
PollKeepsDisplay ==
    UNCHANGED <<last_stat_update, last_chart_update, display_buffers, panels>>

\* watts = get_power_callback(); amperes = get_current_callback() ...
Poll ==
    /\ pc = "poll"
    /\ \E o \in PowerOutcomes, c \in CurrentOutcomes, d \in FetchTicks :
          /\ now' = now + d
          /\ Fetch(o, c, now + d)
          /\ last_poll' = Some([time |-> current_time, ok |-> watts' # None,
                                kind |-> o.kind])
    /\ pc' = AfterPoll(watts')
    /\ PollKeepsDisplay
    /\ UNCHANGED <<params, current_time, history_file, stdout, exit_code, trend_api,
                   color_calls, interrupt_pc>>

\* if watts is not None: add_to_history, the trends, _update_live_display,
\* last_stat_update = current_time
UpdateStats ==
    /\ pc = "stats"
    /\ history' = add_to_history(history, now, Val(watts))
    /\ UNCHANGED display_current_history
    /\ appended' = [appended EXCEPT !["display"] = Append(@, <<now, Val(watts)>>)]
    /\ \E power_trend \in {get_power_trend(TrendMinutesInLoop, now)},
          current_trend \in {IF amperes # None
                             THEN get_current_trend(TrendMinutesInLoop, now)
                             ELSE None} :
          stats_panel' = Some(StatsPanel(Val(watts), power_trend, current_time,
                                         amperes, current_trend, show_current,
                                         history'))
    /\ last_stat_update' = current_time
    /\ pc' = "chart"
    /\ UNCHANGED <<params, now, current_time, last_chart_update, watts, amperes,
                   source_buffers, chart_panel, history_file, stdout, exit_code,
                   trend_api, color_calls, polls, last_poll, interrupt_pc>>

\* if current_time - last_chart_update >= max(interval * 2, 5): _update_chart
ChartStep ==
    /\ pc = "chart"
    /\ IF chart_due(current_time, last_chart_update, interval)
       THEN /\ chart_panel' = update_chart(chart_panel, history,
                                            display_current_history, show_current,
                                            TerminalWidth)
            /\ last_chart_update' = current_time
            /\ appended' = [appended EXCEPT !["chart"] = Append(@, current_time)]
       ELSE UNCHANGED <<chart_panel, last_chart_update, appended>>
    /\ pc' = "sleep"
    /\ UNCHANGED <<params, now, current_time, last_stat_update, watts, amperes, display_buffers,
                   source_buffers, stats_panel, history_file, stdout, exit_code,
                   trend_api, color_calls, polls, last_poll, interrupt_pc>>

\* time.sleep(sleep_time)
Sleep ==
    /\ pc = "sleep"
    /\ now' = now + sleep_time(interval)
    /\ pc' = "top"
    /\ UNCHANGED <<params, loop_locals, display_buffers, source_buffers, panels,
                   history_file, stdout, exit_code, trend_api, color_calls, appended,
                   polls, last_poll, interrupt_pc>>

(***************************************************************************)
(* DisplayManager.display_continuous_usage, raw.                           *)
(***************************************************************************)
\* watts = get_power_callback(); write the line if there is a value
RawPoll ==
    /\ pc = "raw_poll"
    /\ polls < PollLimit
    /\ \E o \in PowerOutcomes, d \in FetchTicks :
          /\ now' = now + d
          /\ LET p == IF source = "ha" THEN HA_get_power_usage(o, now + d)
                      ELSE Kasa_get_power_usage_sync(o, now + d)
             IN  /\ watts' = p.ret
                 /\ power_history' = IF source = "ha" THEN p.buf ELSE power_history
                 /\ kasa_history' = IF source = "kasa" THEN p.buf ELSE kasa_history
                 /\ appended' = [appended EXCEPT
                       ![IF source = "ha" THEN "power" ELSE "kasa"] = @ \o p.added]
                 /\ stdout' = IF p.ret # None THEN Append(stdout, Format0(Val(p.ret)))
                              ELSE stdout
                 /\ last_poll' = Some([time |-> now, ok |-> p.ret # None,
                                       kind |-> o.kind])
    /\ polls' = polls + 1
    /\ pc' = "raw_sleep"
    /\ UNCHANGED <<params, current_time, last_stat_update, last_chart_update,
                   amperes, display_buffers, current_history, panels, history_file,
                   trend_api, color_calls, exit_code, interrupt_pc>>

\* time.sleep(interval)
RawSleep ==
    /\ pc = "raw_sleep"
    /\ now' = now + Seconds(interval)
    /\ pc' = "raw_poll"
    /\ UNCHANGED <<params, loop_locals, display_buffers, source_buffers, panels,
                   history_file, stdout, exit_code, trend_api, color_calls, appended,
                   polls, last_poll, interrupt_pc>>

(***************************************************************************)
(* The interrupt and the end of view.                                      *)
(***************************************************************************)
LoopPcs == {"top", "poll", "stats", "chart", "sleep", "raw_poll", "raw_sleep"}

\* an interrupt that is noted and leaves the loop running
InterruptInLoopIgnored ==
    /\ pc \in LoopPcs
    /\ interrupt_pc = NoPc
    /\ pc' = pc
    /\ interrupt_pc' = pc
    /\ UNCHANGED <<params, now, loop_locals, display_buffers, source_buffers, panels,
                   history_file, stdout, exit_code, trend_api, color_calls, appended,
                   polls, last_poll>>

\* KeyboardInterrupt inside the loop: caught by display_continuous_usage itself
\* (except KeyboardInterrupt: pass / return), which then returns normally
InterruptInLoop ==
    /\ pc \in LoopPcs
    /\ pc' = "stopped"
    /\ interrupt_pc' = pc
    /\ UNCHANGED <<params, now, loop_locals, display_buffers, source_buffers, panels,
                   history_file, stdout, exit_code, trend_api, color_calls, appended,
                   polls, last_poll>>

\* KeyboardInterrupt before the loop's try (the layout is being built, the Live
\* display entered): it leaves _watch_power_usage and reaches view
InterruptInSetup ==
    /\ pc = "setup"
    /\ pc' = "view_except"
    /\ interrupt_pc' = pc
    /\ UNCHANGED <<params, now, loop_locals, display_buffers, source_buffers, panels,
                   history_file, stdout, exit_code, trend_api, color_calls, appended,
                   polls, last_poll>>

\* the buffer between `append((timestamp, value))` and the length check that
\* trims it: the reading is in, nothing has been dropped yet
append_untrimmed(buf, reading) == Append(buf, reading)

MidAppendPcs == {"append_source", "append_current", "append_display"}

\* KeyboardInterrupt inside get_power_usage / get_power_usage_sync, after the append
\* of the reading and before the trim; no handler of the source or of the
\* callback catches it (they catch Exception), the loop's handler does
InterruptInSourceAppend ==
    /\ pc \in {"poll", "raw_poll"}
    /\ polls < PollLimit
    /\ \E o \in PowerOutcomes :
          /\ o.kind \in (IF source = "ha" THEN {"ok"} ELSE {"ok", "emeter_error"})
          /\ LET reading == <<now, IF o.kind = "emeter_error" THEN 0 ELSE o.value>>
             IN  /\ power_history' = IF source = "ha"
                                     THEN append_untrimmed(power_history, reading)
                                     ELSE power_history
                 /\ kasa_history' = IF source = "kasa"
                                    THEN append_untrimmed(kasa_history, reading)
                                    ELSE kasa_history
                 /\ appended' = [appended EXCEPT
                       ![IF source = "ha" THEN "power" ELSE "kasa"] = Append(@, reading)]
    /\ polls' = polls + 1
    /\ pc' = "stopped"
    /\ interrupt_pc' = "append_source"
    /\ UNCHANGED <<params, now, loop_locals, display_buffers, current_history, panels,
                   history_file, stdout, exit_code, trend_api, color_calls, last_poll>>

\* KeyboardInterrupt inside get_current_amperage, after the append and before the
\* trim: the power reading of this poll is already in its buffer
InterruptInCurrentAppend ==
    /\ pc = "poll"
    /\ source = "ha"
    /\ show_current
    /\ current_entity_id # None
    /\ \E o \in PowerOutcomes, c \in CurrentOutcomes :
          /\ o.kind = "ok"
          /\ c.kind = "ok"
          /\ power_history' = HA_append(power_history, now, o.value)
          /\ current_history' = append_untrimmed(current_history, <<now, c.value>>)
          /\ appended' = [appended EXCEPT
                            !["power"] = Append(@, <<now, o.value>>),
                            !["current"] = Append(@, <<now, c.value>>)]
    /\ polls' = polls + 1
    /\ pc' = "stopped"
    /\ interrupt_pc' = "append_current"
    /\ UNCHANGED <<params, now, loop_locals, display_buffers, kasa_history, panels,
                   history_file, stdout, exit_code, trend_api, color_calls, last_poll>>

\* KeyboardInterrupt inside add_to_history, after the append and before the trim
InterruptInDisplayAppend ==
    /\ pc = "stats"
    /\ history' = append_untrimmed(history, <<now, Val(watts)>>)
    /\ UNCHANGED display_current_history
    /\ appended' = [appended EXCEPT !["display"] = Append(@, <<now, Val(watts)>>)]
    /\ pc' = "stopped"
    /\ interrupt_pc' = "append_display"
    /\ UNCHANGED <<params, now, loop_locals, source_buffers, panels, history_file,
                   stdout, exit_code, trend_api, color_calls, polls, last_poll>>

\* _watch_power_usage has returned: view ends without touching the file
ViewReturn ==
    /\ pc = "stopped"
    /\ pc' = "exited"
    /\ exit_code' = Some(0)
    /\ UNCHANGED <<params, now, loop_locals, display_buffers, source_buffers, panels,
                   history_file, stdout, trend_api, color_calls, appended, polls,
                   last_poll, interrupt_pc>>

\* view, except KeyboardInterrupt: "Monitoring stopped." unless raw, and the
\* history is written if there is any
ViewSaveHistory ==
    /\ pc = "view_except"
    /\ pc' = "exited"
    /\ stdout' = IF raw THEN stdout ELSE Append(stdout, ConsoleLine("notice"))
    /\ exit_code' = Some(0)
    /\ history_file' =
         IF SourcePowerHistory # <<>>
         THEN Some([power |-> SourcePowerHistory,
                    current |-> IF source = "ha" THEN current_history ELSE <<>>])
         ELSE history_file
    /\ UNCHANGED <<params, now, loop_locals, display_buffers, source_buffers, panels,
                   trend_api, color_calls, appended, polls, last_poll, interrupt_pc>>

Next ==
    \/ ConstructSource
    \/ ConstructKasaFails
    \/ ValidateConnection
    \/ LoadHistory
    \/ FetchAndDisplay
    \/ EnterLoop
    \/ LoopTop
    \/ Poll
    \/ UpdateStats
    \/ ChartStep
    \/ Sleep
    \/ RawPoll
    \/ RawSleep
    \/ InterruptInLoop
    \/ InterruptInSetup
    \/ InterruptInSourceAppend
    \/ InterruptInCurrentAppend
    \/ InterruptInDisplayAppend
    \/ ViewReturn
    \/ ViewSaveHistory

Spec == Init /\ [][Next]_vars


(***************************************************************************)
(* Long scripted sessions: the buffers start empty (no history file) and   *)
(* are filled beyond their capacity.                                       *)
(***************************************************************************)
InitHist ==
    /\ source \in {"ha", "kasa"}
    /\ interval = 1
    /\ minutes = 5
    /\ show_current = TRUE
    /\ raw \in BOOLEAN
    /\ current_entity_id = (IF source = "ha" THEN Some("sensor") ELSE None)
    /\ script \in Scripts
    /\ watch \in BOOLEAN
    /\ mock = FALSE
    /\ config = DefaultThresholds
    /\ history_file = None
    /\ Fresh

SpecHist == InitHist /\ [][Next]_vars

\* the buffers of the session with what was appended to each
Buffers ==
    {[buf |-> history, log |-> appended.display, cap |-> max_history_size],
     [buf |-> power_history, log |-> appended.power, cap |-> ha_max_history_size],
     [buf |-> current_history, log |-> appended.current, cap |-> ha_max_history_size],
     [buf |-> kasa_history, log |-> appended.kasa, cap |-> kasa_max_history_size]}

\* C1: after each completed append a buffer that starts empty holds no more than
\* its capacity (100), and it holds the most recent readings appended to it, in the
\* order of their appending: all of them up to the capacity, exactly the last 100
\* beyond it.  (An append cut short by the interrupt is not completed.)
C1_BufferBounded ==
    interrupt_pc \notin MidAppendPcs =>
    \A b \in Buffers :
        /\ Len(b.buf) <= b.cap
        /\ Len(b.buf) = Min2(Len(b.log), b.cap)
        /\ \A i \in 1..Len(b.buf) : b.buf[i] = b.log[Len(b.log) - Len(b.buf) + i]

\* more than 100 readings were appended to the display's, the power and the
\* current buffer of a Home Assistant session
C1_Witness ==
    /\ Len(appended.display) > max_history_size
    /\ Len(appended.power) > ha_max_history_size
    /\ Len(appended.current) > ha_max_history_size
    /\ Len(history) = max_history_size


(***************************************************************************)
(* The trend functions called on their own, on any buffer: any order of    *)
(* the timestamps, stamps at and around the cutoffs, stamps ahead of the   *)
(* clock (a buffer seeded from a history file written under another clock, *)
(* or a wall clock set back).                                              *)
(***************************************************************************)
\* at the 5-minute cutoff of the first call (and before that of a later one, within
\* no 1-minute window), just before the clock, ahead of the clock
TrendStamps == {T0 - Seconds(5 * 60), T0 - 1, T0 + MaxTrendClock + 1}

TrendReadings == {<<t, v>> : t \in TrendStamps, v \in Watts}

RECURSIVE SeqsUpTo(_, _)
SeqsUpTo(S, n) ==
    IF n = 0 THEN {<<>>}
    ELSE LET shorter == SeqsUpTo(S, n - 1)
         IN  shorter \cup {Append(q, x) : q \in shorter, x \in S}

TrendBuffers == SeqsUpTo(TrendReadings, MaxTrendLen)

InitTrend ==
    /\ source = "ha"
    /\ interval = 1
    /\ minutes = 5
    /\ show_current = TRUE
    /\ raw = FALSE
    /\ current_entity_id = Some("sensor")
    /\ script = FreeRun
    /\ watch = TRUE
    /\ mock = FALSE
    /\ config = DefaultThresholds
    /\ history_file = None
    /\ now = T0
    /\ pc = "api"
    /\ current_time = 0
    /\ last_stat_update = 0
    /\ last_chart_update = 0
    /\ watts = None
    /\ amperes = None
    /\ history = <<>>
    /\ display_current_history = <<>>
    /\ power_history \in TrendBuffers
    /\ current_history = power_history
    /\ kasa_history = power_history
    /\ stats_panel = LoadingPanel
    /\ chart_panel = CollectingPanel
    /\ stdout = <<>>
    /\ exit_code = None
    /\ trend_result = None
    /\ trend_args = None
    /\ color_calls = <<>>
    /\ appended = [display |-> <<>>, power |-> <<>>, current |-> <<>>, kasa |-> <<>>,
                   chart |-> <<>>]
    /\ polls = 0
    /\ last_poll = None
    /\ interrupt_pc = NoPc

\* the record of a call: the function, its argument, the clock, and whether the
\* call before it was the same call at the same time
CallArgs(fn, m) ==
    Some([fn |-> fn, minutes |-> m, now |-> now,
          repeated |-> /\ trend_args # None
                       /\ Val(trend_args).fn = fn
                       /\ Val(trend_args).minutes = m
                       /\ Val(trend_args).now = now])

\* a trend computation that filters the buffer in place
HA_get_power_trend_Prunes(m) ==
    /\ pc = "api"
    /\ trend_result' = HA_get_trend_data(power_history, m, now)
    /\ trend_args' = CallArgs("ha_power", m)
    /\ power_history' = IF Len(power_history) > 1 THEN Tail(power_history)
                        ELSE power_history
    /\ UNCHANGED <<params, now, pc, loop_locals, display_buffers, current_history, kasa_history,
                   panels, history_file, stdout, exit_code, appended, polls, last_poll,
                   interrupt_pc, color_calls>>

\* HomeAssistant.get_power_trend(minutes)
HA_get_power_trend(m) ==
    /\ pc = "api"
    /\ trend_result' = HA_get_trend_data(power_history, m, now)
    /\ trend_args' = CallArgs("ha_power", m)
    /\ UNCHANGED <<params, now, pc, loop_locals, display_buffers, source_buffers, panels,
                   history_file, stdout, exit_code, appended, polls, last_poll,
                   interrupt_pc, color_calls>>

\* HomeAssistant.get_current_trend(minutes)
HA_get_current_trend(m) ==
    /\ pc = "api"
    /\ trend_result' = HA_get_trend_data(current_history, m, now)
    /\ trend_args' = CallArgs("ha_current", m)
    /\ UNCHANGED <<params, now, pc, loop_locals, display_buffers, source_buffers, panels,
                   history_file, stdout, exit_code, appended, polls, last_poll,
                   interrupt_pc, color_calls>>

\* KasaDevice.get_power_trend(minutes)
Kasa_power_trend(m) ==
    /\ pc = "api"
    /\ trend_result' = Kasa_get_power_trend(kasa_history, m, now)
    /\ trend_args' = CallArgs("kasa_power", m)
    /\ UNCHANGED <<params, now, pc, loop_locals, display_buffers, source_buffers, panels,
                   history_file, stdout, exit_code, appended, polls, last_poll,
                   interrupt_pc, color_calls>>

\* time passes between two calls
ClockStep ==
    /\ pc = "api"
    /\ now < T0 + MaxTrendClock
    /\ now' = now + 1
    /\ UNCHANGED <<params, pc, loop_locals, display_buffers, source_buffers, panels,
                   history_file, stdout, exit_code, trend_api, color_calls, appended,
                   polls, last_poll, interrupt_pc>>

NextTrend ==
    \/ \E m \in MinutesSet : HA_get_power_trend(m)
    \/ \E m \in MinutesSet : HA_get_current_trend(m)
    \/ \E m \in MinutesSet : Kasa_power_trend(m)
    \/ ClockStep

SpecTrend == InitTrend /\ [][NextTrend]_vars


(***************************************************************************)
(* Properties of the trend functions (SpecTrend).                          *)
(***************************************************************************)
\* the buffer the recorded call read
CalledBuffer ==
    LET fn == Val(trend_args).fn
    IN  IF fn = "ha_power" THEN power_history
        ELSE IF fn = "ha_current" THEN current_history
        ELSE kasa_history

\* the cutoff of the recorded call: now - minutes * 60
CalledCutoff == Val(trend_args).now - Seconds(Val(trend_args).minutes * 60)

\* the positions of the buffer's entries with timestamp >= cutoff
InWindow == {i \in 1..Len(CalledBuffer) : CalledBuffer[i][1] >= CalledCutoff}

\* the positions of the entries with cutoff <= timestamp <= now
InClosedWindow == {i \in InWindow : CalledBuffer[i][1] <= Val(trend_args).now}

RECURSIVE SumAt(_, _)
SumAt(buf, I) ==
    IF I = {} THEN 0
    ELSE LET i == CHOOSE x \in I : TRUE IN buf[i][2] + SumAt(buf, I \ {i})

\* C5: a trend computation returns None whenever zero or exactly one entry of the
\* buffer has timestamp >= now - minutes*60, the empty buffer included.
C5_TrendUnavailableBelowTwo ==
    (trend_args # None /\ Cardinality(InWindow) <= 1) => trend_result = None

\* a trend was asked of a buffer with exactly one entry in the window (and others
\* outside it), and of an empty buffer
C5_Witness ==
    /\ trend_args # None
    /\ Cardinality(InWindow) = 1
    /\ Len(CalledBuffer) >= 2
    /\ trend_result = None

\* C6: with at least two entries in the window the result has the smallest and the
\* largest value of the window, their arithmetic mean, their number, the value of
\* the window's last entry in buffer order, and the window asked for.
C6_TrendStatistics ==
    (trend_args # None /\ Cardinality(InWindow) >= 2) =>
        /\ trend_result # None
        /\ LET r == Val(trend_result)
               buf == CalledBuffer
               last == CHOOSE i \in InWindow : \A j \in InWindow : j <= i
           IN  /\ \E i \in InWindow : buf[i][2] = r.min
               /\ \A i \in InWindow : r.min <= buf[i][2]
               /\ \E i \in InWindow : buf[i][2] = r.max
               /\ \A i \in InWindow : r.max >= buf[i][2]
               /\ r.avg[2] > 0
               /\ r.avg[1] * Cardinality(InWindow) = SumAt(buf, InWindow) * r.avg[2]
               /\ r.samples = Cardinality(InWindow)
               /\ r.current = buf[last][2]
               /\ r.period_minutes = Val(trend_args).minutes

\* a trend over a window of two different values whose last entry is not the
\* buffer's first, with an entry left outside the window
C6_Witness ==
    /\ trend_args # None
    /\ trend_result # None
    /\ Cardinality(InWindow) >= 2
    /\ Cardinality(InWindow) < Len(CalledBuffer)
    /\ Val(trend_result).min < Val(trend_result).max
    /\ Val(trend_result).current # CalledBuffer[CHOOSE i \in InWindow :
                                                 \A j \in InWindow : i <= j][2]

\* C7: only the entries with now - minutes*60 <= timestamp <= now contribute to the
\* trend: an entry stamped later than now is left out of min, max, avg and samples.
C7_WindowClosedAtNow ==
    trend_args # None =>
        IF Cardinality(InClosedWindow) < 2 THEN trend_result = None
        ELSE /\ trend_result # None
             /\ Val(trend_result).samples = Cardinality(InClosedWindow)
             /\ \E i \in InClosedWindow : CalledBuffer[i][2] = Val(trend_result).min
             /\ \E i \in InClosedWindow : CalledBuffer[i][2] = Val(trend_result).max
             /\ Val(trend_result).avg[1] = SumAt(CalledBuffer, InClosedWindow)

\* C8: a trend computation leaves the buffers as they are, and the same computation
\* repeated at the same time on the same buffer returns the same result.
C8_TrendIsPure ==
    [][now' = now =>
         /\ UNCHANGED <<power_history, current_history, kasa_history>>
         /\ (trend_args' # None /\ Val(trend_args').repeated) =>
                 trend_result' = trend_result]_vars

\* a trend was computed twice in a row at the same time and is available
C8_Witness ==
    /\ trend_args # None
    /\ Val(trend_args).repeated
    /\ trend_result # None
    /\ Len(CalledBuffer) > Cardinality(InWindow)

(***************************************************************************)
(* Properties of the watch loop (Spec).                                    *)
(***************************************************************************)
\* C2: in live watch mode a failed poll is not followed by another fetch before
\* interval seconds have passed since the failed attempt.
C2_NoRepollBeforeInterval ==
    (pc = "poll" /\ last_poll # None /\ ~Val(last_poll).ok) =>
        current_time - Val(last_poll).time >= Seconds(interval)

\* what the source holds as its current history
SourceCurrentHistory == IF source = "ha" THEN current_history ELSE <<>>

\* the number of readings the session's source has produced
Collected == Len(IF source = "ha" THEN appended.power ELSE appended.kasa)

\* C3: after an interrupt that arrived in the loop of a session that collected at
\* least one power sample, the history file holds the power buffer and the current
\* buffer.
C3_InterruptSavesHistory ==
    (pc = "exited" /\ interrupt_pc \in LoopPcs /\ Collected >= 1) =>
        history_file = Some([power |-> SourcePowerHistory,
                             current |-> SourceCurrentHistory])

\* the stats panel was updated in this iteration, and the clock has not moved since
JustUpdated ==
    /\ pc = "chart"
    /\ watts # None
    /\ last_poll # None
    /\ Val(last_poll).time = current_time
    /\ last_stat_update = current_time

\* C9: the trend statistics put into the stats panel are those of the window of
\* `minutes` minutes the session was started with.
C9_TrendOverRequestedWindow ==
    JustUpdated =>
        /\ Val(stats_panel).power_trend = get_power_trend(minutes, now)
        /\ (amperes # None /\ show_current) =>
               Val(stats_panel).current_trend = get_current_trend(minutes, now)

\* the iteration under way polled the source and got a value
PolledValueThisIteration ==
    /\ pc \in {"chart", "sleep"}
    /\ last_poll # None
    /\ Val(last_poll).time = current_time
    /\ Val(last_poll).ok

\* C10: in live watch mode, when a poll returns a value, the iteration that polled
\* has appended the value to the display history and put it, with the trend
\* computed then, into the stats panel by the time it sleeps; every value polled
\* is appended once.
C10_PollUpdatesBeforeSleep ==
    /\ PolledValueThisIteration =>
        /\ watts # None
        /\ history # <<>>
        /\ history[Len(history)] = <<now, Val(watts)>>
        /\ stats_panel # None
        /\ Val(stats_panel).watts = Val(watts)
        /\ Val(stats_panel).power_trend = get_power_trend(TrendMinutesInLoop, now)
        /\ Val(stats_panel).timestamp = current_time
        /\ last_stat_update = current_time
    /\ (~raw /\ pc \in {"top", "poll", "chart", "sleep"}) =>
           Len(appended.display) = Collected

\* an iteration is about to sleep after a poll that returned a value, with an
\* available trend in the panel
C10_Witness ==
    /\ pc = "sleep"
    /\ PolledValueThisIteration
    /\ Val(stats_panel).power_trend # None
    /\ Len(history) >= 2

(***************************************************************************)
(* The loop under fair scheduling: the process keeps running (a sleep      *)
(* returns, a fetch returns or fails); the interrupt may or may not come.  *)
(***************************************************************************)
Run ==
    \/ ConstructSource
    \/ ConstructKasaFails
    \/ ValidateConnection
    \/ LoadHistory
    \/ FetchAndDisplay
    \/ EnterLoop
    \/ LoopTop
    \/ Poll
    \/ UpdateStats
    \/ ChartStep
    \/ Sleep
    \/ RawPoll
    \/ RawSleep
    \/ ViewReturn
    \/ ViewSaveHistory

InitFair ==
    /\ source \in {"ha", "kasa"}
    /\ interval \in Intervals
    /\ minutes = 5
    /\ show_current \in BOOLEAN
    /\ raw \in BOOLEAN
    /\ current_entity_id = (IF source = "ha" /\ show_current THEN Some("sensor") ELSE None)
    /\ script = FreeRun
    /\ watch \in BOOLEAN
    /\ mock = FALSE
    /\ config = DefaultThresholds
    /\ history_file = None
    /\ Fresh

FairSpec == InitFair /\ [][Next]_vars /\ WF_vars(Run)

\* C4: in watch mode a failed fetch does not end the loop: after the n-th fetch has
\* failed (n below the number of fetches the model allows), a later fetch is
\* attempted unless the interrupt arrives.
C4_FailedFetchKeepsLooping ==
    \A n \in 1..(MaxPolls - 1) :
        (watch /\ polls = n /\ last_poll # None /\ ~Val(last_poll).ok)
            ~> (polls > n \/ interrupt_pc # NoPc)

\* a fetch failed and a later fetch was made, with no interrupt
C4_Witness ==
    /\ polls >= 2
    /\ pc \in {"poll", "raw_poll"}
    /\ last_poll # None
    /\ ~Val(last_poll).ok
    /\ interrupt_pc = NoPc

(***************************************************************************)
(* The cadences of the live loop and the interrupt (Spec).                 *)
(***************************************************************************)
\* the time stamped on the last reading the session's source has produced
LastCollectedStamp ==
    LET log == IF source = "ha" THEN appended.power ELSE appended.kasa
    IN  log[Len(log)][1]

\* C11: in live watch mode, once a poll at loop time t has returned a value, no
\* fetch is made in a later iteration whose loop time is below t + interval: an
\* iteration that is about to fetch is at least interval seconds after the last
\* reading.
C11_RepaintNeverRepolls ==
    (pc = "poll" /\ Collected >= 1) =>
        current_time - LastCollectedStamp >= Seconds(interval)

\* a second repaint iteration after a poll that returned a value, before the next
\* poll is due: it goes on to the chart without fetching
C11_Witness ==
    /\ pc = "chart"
    /\ last_poll # None
    /\ Val(last_poll).ok
    /\ Collected >= 1
    /\ LastCollectedStamp = Val(last_poll).time
    /\ current_time - Val(last_poll).time >= 2 * sleep_time(interval)
    /\ current_time - Val(last_poll).time < Seconds(interval)

\* C12: in live watch mode two consecutive _update_chart calls are at least
\* max(2*interval, 5) seconds of loop time apart.
C12_ChartCadence ==
    \A i \in 2..Len(appended.chart) :
        appended.chart[i] - appended.chart[i - 1] >= Seconds(Max2(2 * interval, 5))

\* the chart was recomputed a second time, with polls in between
C12_Witness ==
    /\ Len(appended.chart) >= 2
    /\ pc = "sleep"
    /\ last_chart_update = current_time
    /\ Len(appended.display) >= 2
    /\ chart_panel # None

\* a step of a stopped loop
StoppedStep ==
    /\ pc \in {"stopped", "exited"}
    /\ pc' \in {"stopped", "exited"}
    /\ UNCHANGED <<polls, last_poll, appended, watts, amperes, history,
                   power_history, current_history, kasa_history,
                   stats_panel, chart_panel, stdout>>

\* C13: after an interrupt delivered during the watch loop (live or raw) the loop
\* is stopped: no step fetches from the source, appends to a history, updates a
\* panel or writes a line.
C13_InterruptStopsLoop ==
    [][(interrupt_pc \in (LoopPcs \cup MidAppendPcs)) => StoppedStep]_vars

\* the session ended after an interrupt in the loop, with fetches made and more
\* fetches allowed
C13_Witness ==
    /\ pc = "exited"
    /\ interrupt_pc \in {"sleep", "raw_sleep"}
    /\ polls >= 1
    /\ polls < PollLimit

(***************************************************************************)
(* The interrupt inside an append (SpecHist).                              *)
(***************************************************************************)
\* C14: an interrupt that arrives during a history append, also between the adding
\* of the reading and the trim, leaves the buffer with at most its capacity (100)
\* of entries, which are the last readings appended, in insertion order.
C14_InterruptedAppendKeepsBound ==
    interrupt_pc \in MidAppendPcs =>
        \A b \in Buffers :
            /\ Len(b.buf) <= b.cap
            /\ Len(b.buf) <= Len(b.log)
            /\ \A i \in 1..Len(b.buf) : b.buf[i] = b.log[Len(b.log) - Len(b.buf) + i]

(***************************************************************************)
(* A failing energy meter of the Kasa source (Spec).                       *)
(***************************************************************************)
\* C15: when the read of the Kasa energy meter times out or fails, the fetch is a
\* failure: get_power_usage_sync returns None and appends nothing to the source
\* history, so the tick is skipped.
C15_EmeterFailureIsAFailure ==
    (last_poll # None /\ Val(last_poll).kind = "emeter_error") =>
        /\ ~Val(last_poll).ok
        /\ watts = None
        /\ \A i \in 1..Len(kasa_history) : kasa_history[i][1] # Val(last_poll).time

(***************************************************************************)
(* Raw output (Spec).                                                      *)
(***************************************************************************)
\* the number a sequence of decimal digits denotes
RECURSIVE DecimalValue(_)
DecimalValue(ds) ==
    IF ds = <<>> THEN 0
    ELSE 10 * DecimalValue(SubSeq(ds, 1, Len(ds) - 1)) + ds[Len(ds)]

\* the line is the number v written with no decimals: an optional sign, then the
\* decimal digits of |v| without leading zeros
IsNumberLineOf(l, v) ==
    /\ l.kind = "number"
    /\ l.negative = (v < 0)
    /\ l.digits # <<>>
    /\ \A i \in 1..Len(l.digits) : l.digits[i] \in 0..9
    /\ (Len(l.digits) > 1 => l.digits[1] # 0)
    /\ DecimalValue(l.digits) = (IF v < 0 THEN -v ELSE v)

\* the number lines of standard output
NumberLines == SelectSeq(stdout, LAMBDA l : l.kind = "number")

\* a step of a raw watch session: a completed poll writes the one line of its value
\* or nothing, and no step touches the display history or a panel
RawStep ==
    /\ UNCHANGED <<history, stats_panel, chart_panel>>
    /\ appended'.display = appended.display
    /\ appended'.chart = appended.chart
    /\ (pc = "raw_poll" /\ pc' = "raw_sleep") =>
          IF watts' # None
          THEN /\ Len(stdout') = Len(stdout) + 1
               /\ SubSeq(stdout', 1, Len(stdout)) = stdout
               /\ IsNumberLineOf(stdout'[Len(stdout')], Val(watts'))
               /\ SourcePowerHistory' # <<>>
               /\ SourcePowerHistory'[Len(SourcePowerHistory')] = <<now', Val(watts')>>
          ELSE /\ stdout' = stdout
               /\ SourcePowerHistory' = SourcePowerHistory
    /\ (pc # "raw_poll" /\ pc \in LoopPcs) => stdout' = stdout

\* C16: in raw watch mode each poll that returns a value writes exactly one line,
\* the value with zero decimals; a failed poll writes nothing; no layout, panel or
\* display history is updated.
C16_RawLoopWritesReadings ==
    [][(watch /\ raw) => RawStep]_vars

\* a raw watch session between two polls: a poll has failed and written nothing,
\* another has written its value
C16_Witness ==
    /\ watch
    /\ raw
    /\ pc = "raw_sleep"
    /\ polls >= 2
    /\ Len(NumberLines) >= 1
    /\ Len(NumberLines) < polls
    /\ watts # None
    /\ IsNumberLineOf(stdout[Len(stdout)], Val(watts))

\* C17: a raw single-shot call whose one fetch gives None or raises exits with
\* status 1 and has written nothing to standard output.
C17_RawSingleShotFailure ==
    (~watch /\ raw /\ pc = "exited" /\ last_poll # None /\ ~Val(last_poll).ok) =>
        /\ exit_code = Some(1)
        /\ stdout = <<>>

\* a raw single-shot call has ended after a failed fetch
C17_Witness ==
    /\ ~watch
    /\ raw
    /\ pc = "exited"
    /\ polls = 1
    /\ last_poll # None
    /\ ~Val(last_poll).ok
    /\ watts = None
    /\ exit_code = Some(1)

\* C18: in raw mode standard output holds number lines only, one per fetch that
\* returned a value: no banner, notice or error panel, whatever the source, mock
\* mode and the startup validation included.
C18_RawStdoutOnlyNumbers ==
    raw => \A i \in 1..Len(stdout) : stdout[i].kind = "number"

(***************************************************************************)
(* The load steps called on their own, on any buffers: a source object     *)
(* whose buffers hold readings or not, and a history file that holds the   *)
(* series of another session.                                              *)
(***************************************************************************)
LoadPowerBuffers == {<<>>, << <<T0 - 200, 100>> >>}

LoadCurrentBuffers == {<<>>, << <<T0 - 200, 2>> >>}

InitLoad ==
    /\ source \in {"ha", "kasa"}
    /\ interval = 1
    /\ minutes = 5
    /\ show_current \in BOOLEAN
    /\ raw = FALSE
    /\ current_entity_id = None
    /\ script = FreeRun
    /\ watch = TRUE
    /\ mock = FALSE
    /\ config = DefaultThresholds
    /\ history_file \in HistoryFiles
    /\ now = T0
    /\ pc = "load_api"
    /\ current_time = 0
    /\ last_stat_update = 0
    /\ last_chart_update = 0
    /\ watts = None
    /\ amperes = None
    /\ history = <<>>
    /\ display_current_history = <<>>
    /\ power_history \in LoadPowerBuffers
    /\ current_history \in LoadCurrentBuffers
    /\ kasa_history \in LoadPowerBuffers
    /\ stats_panel = LoadingPanel
    /\ chart_panel = CollectingPanel
    /\ stdout = <<>>
    /\ exit_code = None
    /\ trend_result = None
    /\ trend_args = None
    /\ color_calls = <<>>
    /\ appended = [display |-> <<>>, power |-> <<>>, current |-> <<>>, kasa |-> <<>>,
                   chart |-> <<>>]
    /\ polls = 0
    /\ last_poll = None
    /\ interrupt_pc = NoPc

\* data_source._load_history_from_daemon()
CallLoadFromDaemon ==
    /\ pc = "load_api"
    /\ pc' = "loaded"
    /\ load_history_from_daemon
    /\ UNCHANGED <<params, now, loop_locals, display_buffers, panels, history_file, stdout,
                   exit_code, trend_api, color_calls, appended, polls, last_poll,
                   interrupt_pc>>

\* the "Load history" block of view
CallLoadFromFile ==
    /\ pc = "load_api"
    /\ pc' = "loaded"
    /\ load_history_from_file
    /\ UNCHANGED <<params, now, loop_locals, display_buffers, panels, history_file, stdout,
                   exit_code, trend_api, color_calls, appended, polls, last_poll,
                   interrupt_pc>>

NextLoad ==
    \/ CallLoadFromDaemon
    \/ CallLoadFromFile

SpecLoad == InitLoad /\ [][NextLoad]_vars

\* a buffer that holds a reading is the same after the step
KeepsNonEmptyBuffers ==
    /\ power_history # <<>> => power_history' = power_history
    /\ current_history # <<>> => current_history' = current_history
    /\ kasa_history # <<>> => kasa_history' = kasa_history

\* C19: a load of the persisted history, by view or by a source's
\* _load_history_from_daemon, leaves a power or current buffer that already holds
\* a reading unchanged.
C19_LoadSeedsOnlyEmpty ==
    [][(pc \in {"load_api", "start", "constructed"}) => KeepsNonEmptyBuffers]_vars

\* after a load: the power buffer was kept although the file holds another series,
\* and the empty current buffer was seeded from the file
C19_Witness ==
    /\ pc = "loaded"
    /\ source = "ha"
    /\ history_file # None
    /\ power_history = << <<T0 - 200, 100>> >>
    /\ Val(history_file).power # power_history
    /\ Val(history_file).power # <<>>
    /\ current_history = Val(history_file).current
    /\ current_history # <<>>
    /\ current_history \notin LoadCurrentBuffers

(***************************************************************************)
(* get_color_for_watts called on its own, under any thresholds of the      *)
(* configuration (also warning above critical, and the two equal) and on   *)
(* values at and around them.                                              *)
(***************************************************************************)
ThresholdSets ==
    {[warning |-> w, critical |-> c] : w \in {0, warning_threshold, critical_threshold},
                                       c \in {warning_threshold, critical_threshold,
                                               critical_threshold + 300}}

ColorWatts ==
    {-1, 0} \cup {t + d : t \in {warning_threshold, critical_threshold,
                                  critical_threshold + 300},
                          d \in {-1, 0, 1}}

InitColor ==
    /\ source = "ha"
    /\ interval = 1
    /\ minutes = 5
    /\ show_current = FALSE
    /\ raw = FALSE
    /\ current_entity_id = None
    /\ script = FreeRun
    /\ watch = FALSE
    /\ mock = FALSE
    /\ config \in ThresholdSets
    /\ history_file = None
    /\ now = T0
    /\ pc = "color_api"
    /\ current_time = 0
    /\ last_stat_update = 0
    /\ last_chart_update = 0
    /\ watts = None
    /\ amperes = None
    /\ history = <<>>
    /\ display_current_history = <<>>
    /\ power_history = <<>>
    /\ current_history = <<>>
    /\ kasa_history = <<>>
    /\ stats_panel = LoadingPanel
    /\ chart_panel = CollectingPanel
    /\ stdout = <<>>
    /\ exit_code = None
    /\ trend_result = None
    /\ trend_args = None
    /\ color_calls = <<>>
    /\ appended = [display |-> <<>>, power |-> <<>>, current |-> <<>>, kasa |-> <<>>,
                   chart |-> <<>>]
    /\ polls = 0
    /\ last_poll = None
    /\ interrupt_pc = NoPc

\* display_mgr.get_color_for_watts(w); the last two calls are kept
CallColor(w) ==
    /\ pc = "color_api"
    /\ color_calls' = LastN(Append(color_calls,
                                   [watts |-> w, color |-> get_color_for_watts(w)]), 2)
    /\ UNCHANGED <<params, now, pc, loop_locals, display_buffers, source_buffers, panels,
                   history_file, stdout, exit_code, trend_api, appended, polls,
                   last_poll, interrupt_pc>>

NextColor == \E w \in ColorWatts : CallColor(w)

SpecColor == InitColor /\ [][NextColor]_vars

\* the rank of a band
Band(color) == IF color = "green" THEN 0 ELSE IF color = "yellow" THEN 1 ELSE 2

\* C20: a value gets exactly one band: critical (red) when watts >= critical,
\* otherwise warning (yellow) when watts >= warning, otherwise normal (green); a
\* value equal to a threshold is in the higher band; with warning <= critical the
\* band does not decrease as watts increases.
C20_ColorBands ==
    /\ \A i \in 1..Len(color_calls) :
          LET c == color_calls[i]
          IN  /\ c.color \in {"green", "yellow", "red"}
              /\ c.color = "red" <=> c.watts >= config.critical
              /\ c.color = "yellow" <=>
                    (c.watts < config.critical /\ c.watts >= config.warning)
              /\ c.color = "green" <=>
                    (c.watts < config.critical /\ c.watts < config.warning)
    /\ config.warning <= config.critical =>
          \A i, j \in 1..Len(color_calls) :
              color_calls[i].watts <= color_calls[j].watts =>
                  Band(color_calls[i].color) <= Band(color_calls[j].color)

\* two calls on the thresholds themselves: the value equal to warning is yellow,
\* the value equal to critical is red
C20_Witness ==
    /\ Len(color_calls) = 2
    /\ config.warning < config.critical
    /\ color_calls[1].watts = config.warning
    /\ color_calls[1].color = "yellow"
    /\ color_calls[2].watts = config.critical
    /\ color_calls[2].color = "red"

(***************************************************************************)
(* The charts of the live display.                                         *)
(***************************************************************************)
\* _update_chart has just rendered the history: the chart step of this loop
\* iteration was due, and nothing was appended since
ChartJustDrawn ==
    /\ pc = "sleep"
    /\ last_chart_update = current_time
    /\ history # <<>>
    /\ chart_panel # None

\* the bars of the chart panel
Bars == Val(chart_panel).bars

\* C21: for a non-empty history of n readings the bar chart renders min(n, 10)
\* bars, each a reading of the most recent min(n, 30); after a single reading
\* the render produces exactly one bar.
C21_BarsForEveryHistory ==
    ChartJustDrawn =>
        LET recent == LastN(history, bar_window)
        IN  /\ Len(Bars) = Min2(Len(history), display_count)
            /\ \A k \in 1..Len(Bars) :
                  \E j \in 1..Len(recent) : recent[j] = <<Bars[k].time, Bars[k].watts>>

\* the indices the claim names for a window of h readings
SampledIndices(h) == {h - 1 - i * (h \div display_count) : i \in 0..(display_count - 1)}

\* C22: with at least 10 readings and h = min(len(history), 30), the bars are the
\* readings at the indices h-1 - i*(h // 10), i = 0..9, of the most recent h
\* readings: 10 distinct indices within 0..h-1, the newest reading among them,
\* emitted in chronological order.
C22_BarSampling ==
    (ChartJustDrawn /\ Len(history) >= display_count) =>
        LET h == Min2(Len(history), bar_window)
            recent == LastN(history, h)
        IN  /\ Len(Bars) = display_count
            /\ {Bars[k].index : k \in 1..Len(Bars)} = SampledIndices(h)
            /\ Cardinality(SampledIndices(h)) = display_count
            /\ SampledIndices(h) \subseteq 0..(h - 1)
            /\ Bars[Len(Bars)].index = h - 1
            /\ \A k \in 1..Len(Bars) :
                  recent[Bars[k].index + 1] = <<Bars[k].time, Bars[k].watts>>
            /\ \A k \in 1..(Len(Bars) - 1) :
                  /\ Bars[k].index < Bars[k + 1].index
                  /\ Bars[k].time <= Bars[k + 1].time

\* a chart of a full window of 30 readings: every third reading is drawn, from
\* index 2 to index 29
C22_Witness ==
    /\ ChartJustDrawn
    /\ Len(history) >= bar_window
    /\ Len(Bars) = display_count
    /\ Bars[1].index = 2
    /\ Bars[2].index = 5
    /\ Bars[display_count].index = bar_window - 1

\* C23: a bar is as long as the integer part of (value / 1800) * chart_width,
\* raised to 1 character only when the value is not zero (a reading of 0 W gets
\* no bar), and it has the threshold colour of its value.
C23_BarLength ==
    ChartJustDrawn =>
        \A k \in 1..Len(Bars) :
            LET w == Bars[k].watts
                scaled == (w * chart_width(TerminalWidth)) \div max_Watts
            IN  /\ Bars[k].bar_width = (IF w # 0 THEN Max2(1, scaled) ELSE scaled)
                /\ Bars[k].color = (IF w >= config.critical THEN "red"
                                    ELSE IF w >= config.warning THEN "yellow"
                                    ELSE "green")

\* C24: in watch mode with --current and a source that returns ampere readings,
\* every successful current reading is recorded in the current series the bar
\* chart reads, so each bar row carries a current bar, scaled by the largest
\* amperage of the sampled window.
C24_CurrentBars ==
    (watch /\ ~raw /\ show_current) =>
        /\ (pc = "sleep" /\ watts # None /\ amperes # None) =>
              /\ display_current_history # <<>>
              /\ display_current_history[Len(display_current_history)][2] = Val(amperes)
        /\ (ChartJustDrawn /\ appended.current # <<>>) =>
              LET window == LastN(display_current_history, Min2(Len(history), bar_window))
              IN  \A k \in 1..Len(Bars) :
                      /\ Bars[k].current_bar # None
                      /\ Bars[k].index < Len(window)
                      /\ Val(Bars[k].current_bar) =
                            Max2(1, (window[Bars[k].index + 1][2]
                                        * chart_width(TerminalWidth))
                                    \div SeqMax(ValuesOf(window)))

(***************************************************************************)
(* The renderers called on their own: _update_live_display and             *)
(* _update_chart on a DisplayManager whose history holds readings of any   *)
(* time span and any spread of values, in terminals of several widths.     *)
(* A history of few readings over a long time is what a session with long  *)
(* runs of failed polls leaves.                                            *)
(***************************************************************************)
\* os.get_terminal_size().columns: a narrow terminal, the fallback and a wide one
TerminalWidths == {40, TerminalWidth, 100}

\* seconds between the first and the last reading: none, less and more than
\* 0.001 h (3.6 s), half an hour, around one hour, two hours
HistorySpans == {0, 1, 14, 15, Seconds(1800), Seconds(3600) - 1, Seconds(3600),
                 Seconds(7200)}

\* watts of a reading: nothing, the values around the default thresholds, the
\* largest value the bars are scaled to
DisplayWatts == {0, 100, 300, max_Watts}

\* a history of n readings one second apart, the values going round 100..400 W
SteadyHistory(n) == [k \in 1..n |-> <<T0 + Seconds(k), 100 + 50 * (k % 7)>>]

DisplayHistories ==
    {<<>>}
      \cup {<< <<T0, w>> >> : w \in DisplayWatts}
      \cup {<< <<T0, v>>, <<T0 + d, w>> >> :
               v \in DisplayWatts, w \in DisplayWatts, d \in HistorySpans}
      \cup {<< <<T0, u>>, <<T0, v>>, <<T0 + d, w>> >> :
               u \in {0, 300}, v \in {100, 300}, w \in {300, max_Watts},
               d \in {0, Seconds(7200)}}
      \cup {SteadyHistory(n) : n \in {line_chart_points - 1, line_chart_points,
                                      line_chart_points + 1}}
      \cup {[k \in 1..line_chart_points |-> <<T0 + Seconds(k), 300>>]}

\* the trend handed to _update_live_display: none, or the trend of a window
DisplayTrends ==
    {None} \cup {Some(TrendRecord(v, TrendMinutesInLoop)) :
                    v \in {<<300, 300>>, <<100, 300>>, <<100, 300, 350>>}}

InitDisplay ==
    /\ source = "ha"
    /\ interval = 1
    /\ minutes = 5
    /\ show_current = FALSE
    /\ raw = FALSE
    /\ current_entity_id = None
    /\ script = FreeRun
    /\ watch = TRUE
    /\ mock = FALSE
    /\ config = DefaultThresholds
    /\ history_file = None
    /\ history \in DisplayHistories
    /\ now = IF history = <<>> THEN T0 ELSE history[Len(history)][1]
    /\ pc = "display_api"
    /\ current_time = now
    /\ last_stat_update = 0
    /\ last_chart_update = 0
    /\ watts = None
    /\ amperes = None
    /\ display_current_history = <<>>
    /\ power_history = <<>>
    /\ current_history = <<>>
    /\ kasa_history = <<>>
    /\ stats_panel = LoadingPanel
    /\ chart_panel = CollectingPanel
    /\ stdout = <<>>
    /\ exit_code = None
    /\ trend_result = None
    /\ trend_args = None
    /\ color_calls = <<>>
    /\ appended = [display |-> <<>>, power |-> <<>>, current |-> <<>>, kasa |-> <<>>,
                   chart |-> <<>>]
    /\ polls = 0
    /\ last_poll = None
    /\ interrupt_pc = NoPc

\* self._update_live_display(layout, watts, source, trend_data, ...)
CallUpdateLiveDisplay(w, trend) ==
    /\ pc = "display_api"
    /\ stats_panel' = Some(StatsPanel(w, trend, current_time, None, None,
                                      show_current, history))
    /\ UNCHANGED <<params, now, pc, loop_locals, display_buffers, source_buffers,
                   chart_panel, history_file, stdout, exit_code, trend_api,
                   color_calls, appended, polls, last_poll, interrupt_pc>>

\* self._update_chart(layout, trend_data, show_current) in a terminal tw wide
CallUpdateChart(tw) ==
    /\ pc = "display_api"
    /\ chart_panel' = update_chart(chart_panel, history, display_current_history,
                                   show_current, tw)
    /\ UNCHANGED <<params, now, pc, loop_locals, display_buffers, source_buffers,
                   stats_panel, history_file, stdout, exit_code, trend_api,
                   color_calls, appended, polls, last_poll, interrupt_pc>>

NextDisplay ==
    \/ \E w \in Watts, trend \in DisplayTrends : CallUpdateLiveDisplay(w, trend)
    \/ \E tw \in TerminalWidths : CallUpdateChart(tw)

SpecDisplay == InitDisplay /\ [][NextDisplay]_vars

\* the rows of the energy table in the stats panel
EnergyRows == Val(stats_panel).energy

\* the stats panel was rendered with a trend over a history of two or more readings
EnergyRendered ==
    /\ pc = "display_api"
    /\ stats_panel # None
    /\ Val(stats_panel).power_trend # None
    /\ Len(history) >= 2

\* C25: with a trend and a history of at least 2 readings, elapsed is the span
\* between the first and the last timestamp of the history, at least 0.001 h.
\* Below one hour the energy table holds only the estimated hourly figure
\* avg/1000 kWh/hour; from one hour on it holds the actual figure
\* avg*elapsed/1000 kWh and the hourly figure avg/1000 (30 min at 300 W: 0.300
\* only; 2 h at 300 W: 0.600 and 0.300).
C25_EnergyByElapsed ==
    EnergyRendered =>
        LET avg == Val(Val(stats_panel).power_trend).avg
            span == history[Len(history)][1] - history[1][1]
            hour == Seconds(3600)
            rows == EnergyRows
        IN  /\ span < hour =>
                  /\ Len(rows) = 1
                  /\ rows[1].label = "Used (est.)"
                  /\ rows[1].kwh = Frac(avg[1], avg[2] * 1000)
            /\ span >= hour =>
                  /\ Len(rows) = 2
                  /\ rows[1].label = "Used (actual)"
                  /\ rows[1].kwh = Frac(avg[1] * span, avg[2] * 1000 * hour)
                  /\ rows[2].label = "Used (hourly)"
                  /\ rows[2].kwh = Frac(avg[1], avg[2] * 1000)
            /\ (span = Seconds(1800) /\ Frac(avg[1], avg[2]) = <<300, 1>>) =>
                  rows = <<[label |-> "Used (est.)", kwh |-> Frac(300, 1000)]>>
            /\ (span = Seconds(7200) /\ Frac(avg[1], avg[2]) = <<300, 1>>) =>
                  rows = <<[label |-> "Used (actual)", kwh |-> Frac(600, 1000)],
                           [label |-> "Used (hourly)", kwh |-> Frac(300, 1000)]>>

\* two hours at 300 W: the actual figure 0.600 kWh and the hourly figure 0.300
C25_Witness ==
    /\ EnergyRendered
    /\ history[Len(history)][1] - history[1][1] = Seconds(7200)
    /\ Frac(Val(Val(stats_panel).power_trend).avg[1],
            Val(Val(stats_panel).power_trend).avg[2]) = <<300, 1>>
    /\ Len(EnergyRows) = 2
    /\ EnergyRows[1] = [label |-> "Used (actual)", kwh |-> <<3, 5>>]
    /\ EnergyRows[2] = [label |-> "Used (hourly)", kwh |-> <<3, 10>>]

(***************************************************************************)
(* The live loop and its charts, continued.                                *)
(***************************************************************************)
\* the placeholder of _create_line_chart
IsPlaceholder(line) == line.kind = "Not enough data for line chart" /\ line.positions = <<>>

\* a chart update of the loop that returns (the step from the chart to the sleep
\* when the chart is due), on a history too short for the charts
ShortChartStep ==
    (/\ pc = "chart"
     /\ chart_due(current_time, last_chart_update, interval)
     /\ pc' = "sleep") =>
        /\ last_chart_update' = current_time
        /\ history = <<>> => chart_panel' = chart_panel
        /\ Len(history) = 1 =>
              /\ chart_panel' # None
              /\ IsPlaceholder(Val(chart_panel').line)
        /\ Len(history) >= 2 =>
              /\ chart_panel' # None
              /\ ~IsPlaceholder(Val(chart_panel').line)

\* C26: a chart update on an empty history changes nothing and does not fail;
\* a line chart of fewer than 2 readings is the placeholder message, not a grid.
C26_ChartsDegrade == [][ShortChartStep]_vars

\* the chart was due after a first poll that failed: the history is empty and
\* the panel still holds what the layout was created with
C26_Witness ==
    /\ pc = "sleep"
    /\ last_chart_update = current_time
    /\ last_poll # None
    /\ ~Val(last_poll).ok
    /\ history = <<>>
    /\ chart_panel = CollectingPanel

\* the poll of this loop iteration failed
FailedPollThisIteration ==
    /\ pc \in {"chart", "sleep"}
    /\ last_poll # None
    /\ ~Val(last_poll).ok
    /\ Val(last_poll).time = current_time

\* a step of an iteration whose poll fails
FailedPollStep ==
    ((pc = "poll" /\ watts' = None) \/ FailedPollThisIteration) =>
        UNCHANGED <<history, stats_panel, last_stat_update>>

\* C27: on a failed poll in live watch mode the display history, the stats
\* panel and the time of the last stats update are left as they were by that
\* iteration.
C27_FailedPollKeepsStats == [][(watch /\ ~raw) => FailedPollStep]_vars

\* an iteration whose poll failed, after an earlier poll had filled the panel
C27_Witness ==
    /\ watch
    /\ ~raw
    /\ FailedPollThisIteration
    /\ pc = "sleep"
    /\ stats_panel # None
    /\ history # <<>>
    /\ last_stat_update < current_time

\* the line chart of the chart panel
Line == Val(chart_panel).line

\* C28: every reading plotted by the line chart is visible in the finished
\* grid: the cell at the sample's (row, column) holds a point after the axes
\* are drawn, for every sample, the oldest included.
C28_EverySampleVisible ==
    (ChartJustDrawn /\ Line.kind = "grid") =>
        \A k \in 1..Len(Line.positions) :
            /\ Line.positions[k] \in Line.points
            /\ GridCell(Line.positions, Line.positions[k][1], Line.positions[k][2])
                  = "point"

\* the chart was rendered from a history of two or more readings
LineRendered ==
    /\ pc = "display_api"
    /\ chart_panel # None
    /\ Len(history) >= 2

\* C29: for a history of at least 2 readings and a chart width of at least 20,
\* the value range of the row mapping is at least 1, every sample's row is in
\* 0..height-1 and its column in 0..width-1.
C29_GridInBounds ==
    LineRendered =>
        /\ Line.kind = "grid"
        /\ Line.width >= 20
        /\ Line.value_range10 >= 10
        /\ Len(Line.positions) = Min2(Len(history), line_chart_points)
        /\ \A k \in 1..Len(Line.positions) :
              /\ Line.positions[k][1] \in 0..(line_chart_height - 1)
              /\ Line.positions[k][2] \in 0..(Line.width - 1)

\* a full window of 30 readings in the narrowest chart: the oldest sample in
\* column 0, the newest in the last column
C29_Witness ==
    /\ LineRendered
    /\ Len(history) > line_chart_points
    /\ Line.width = 20
    /\ Len(Line.positions) = line_chart_points
    /\ Line.positions[1][2] = 0
    /\ Line.positions[line_chart_points][2] = Line.width - 1

\* C30: in live watch mode, after any sequence of polls, the display history and
\* the source's power history hold the same reading values in the same order.
C30_HistoriesAgree ==
    (watch /\ ~raw /\ pc \in {"top", "chart", "sleep"} /\ appended.display # <<>>) =>
        ValuesOf(history) = ValuesOf(SourcePowerHistory)

====
